---- MODULE Spec2Model ----
(***************************************************************************)
(* A model of the SDP RAG API (src/src/api/app.py) and of its ingestion    *)
(* pipeline (src/data_ingestion/*.py).                                     *)
(*                                                                         *)
(* The chat handler is a coroutine: it gives up the event loop at each     *)
(* await (Session.insert, Session.find_one, Session.save), so each action  *)
(* of the chat part is the code between two awaits together with the       *)
(* database operation of the await that ends it.  The ingestion handlers   *)
(* await nothing once they have started working, so an ingestion runs to   *)
(* its response before any other handler gets the event loop; its steps    *)
(* are the calls of DocumentIngestion.ingest_documents.                    *)
(***************************************************************************)
EXTENDS Integers, Sequences, FiniteSets, TLC

(***************************************************************************)
(* Bounds of the model.                                                    *)
(***************************************************************************)
NumReq == 3
NumSid == 2
MaxIngest == 2
MaxUrls == 2
MaxDelete == 1
NumReg == 3

\* chunk_size and chunk_overlap of the text splitter (1000 and 200 in
\* DocumentIngestion.__init__), scaled down to the texts of the model
ChunkSize == 2
ChunkOverlap == 1

(***************************************************************************)
(* Users.  get_current_user (src/api/auth.py) hands the handler the stored *)
(* user of the token; user 1 is an admin, user 2 is not.                    *)
(***************************************************************************)
UserIds == {1, 2}

UserType(u) == IF u = 1 THEN "admin" ELSE "user"

Questions == {"q1", "q2"}

Req == 1..NumReq

\* uuid.uuid4() gives the ids 1..NumSid, one after the other; UnknownSid is an
\* id it never gives
UnknownSid == NumSid + 1

\* find_one found no document
NoSession == [user_id |-> 0, messages |-> << >>]

\* Message(content=..., role=...)  (the timestamp is left out)
Message(content, role) == [content |-> content, role |-> role]

\* what Chatbot.get_answer returns for a question
AnswerTo(q) == "answer to " \o q

NoExc == [kind |-> "none", status |-> 0]

HTTPException(code) == [kind |-> "HTTPException", status |-> code]

\* an exception raised inside Chatbot.get_answer
LLMError == [kind |-> "llm", status |-> 0]

VARIABLES sessions, uuids, chat,
          dataDir, resources, chunks, embedCalls, fetched, ingests, ing,
          deletion, dels, listing,
          users, reg

chatVars == <<sessions, uuids, chat>>

ingestVars == <<dataDir, resources, chunks, embedCalls, fetched, ingests, ing>>

\* the delete_session and get_sessions requests
ownerVars == <<deletion, dels, listing>>

\* the register requests
userVars == <<users, reg>>

vars == <<sessions, uuids, chat, dataDir, resources, chunks, embedCalls, fetched, ingests, ing,
          deletion, dels, listing, users, reg>>

\* a chat request: where its handler stands (pc), the request (user, question,
\* session_id, supplied: whether the client sent the session_id), the handler's
\* session object (found: the number of messages find_one returned), the
\* exception raised in the handler and the status of the response
IdleReq == [pc |-> "idle", user |-> 0, question |-> "", session_id |-> 0,
            supplied |-> FALSE, session |-> NoSession, found |-> 0,
            raised |-> NoExc, status |-> 0]

ChatInit ==
    /\ sessions = << >>
    /\ uuids = 0
    /\ chat = [r \in Req |-> IdleReq]

\* an ingestion handler keeps the event loop until it has responded
IngestIdle == ing.pc \in {"idle", "done"}

\* requests are taken in the order of their numbers; the get_sessions request
\* the model follows arrives after them
CanArrive(r) ==
    /\ IngestIdle
    /\ listing.user = 0
    /\ chat[r].pc = "idle"
    /\ \A p \in Req : p < r => chat[p].pc # "idle"

\* the session ids a client supplies: those of the stored sessions and one
\* that is the id of no session
SidSpace == (DOMAIN sessions) \cup {UnknownSid}

InFlight(r) == chat[r].pc \in {"found", "ask"}

\* the requests whose handler works on session sid
OnSession(sid) == {r \in Req : chat[r].pc # "idle" /\ chat[r].session_id = sid}

\* Session.find_one(Session.session_id == session_id)
FindOne(sid) == IF sid \in DOMAIN sessions THEN sessions[sid] ELSE NoSession

\* the collection after session.insert() / session.save(): the whole document
\* is written under its session_id
Stored(sid, doc) ==
    [s \in (DOMAIN sessions) \cup {sid} |-> IF s = sid THEN doc ELSE sessions[s]]

\* except Exception as e: raise HTTPException(status_code=500, ...)
ChatExcept(r, exc) ==
    [chat EXCEPT ![r].pc = "done", ![r].session = NoSession,
                 ![r].raised = exc, ![r].status = 500]

\* lines 232-242 with a session created without its first message
ChatNewEmpty(r, u, q) ==
    /\ CanArrive(r)
    /\ uuids < NumSid
    /\ LET sid == uuids + 1
           doc == [user_id |-> u, messages |-> << >>]
       IN /\ uuids' = sid
          /\ sessions' = Stored(sid, doc)
          /\ chat' = [chat EXCEPT ![r] = [IdleReq EXCEPT
                                             !.pc = "ask", !.user = u, !.question = q,
                                             !.session_id = sid, !.session = doc]]
    /\ UNCHANGED <<ingestVars, ownerVars, userVars>>

\* chat, request without session_id: lines 232-242
ChatNew(r, u, q) ==
    /\ CanArrive(r)
    /\ uuids < NumSid
    /\ LET sid == uuids + 1
           doc == [user_id |-> u, messages |-> <<Message(q, "user")>>]
       IN /\ uuids' = sid
          /\ sessions' = Stored(sid, doc)
          /\ chat' = [chat EXCEPT ![r] = [IdleReq EXCEPT
                                             !.pc = "ask", !.user = u, !.question = q,
                                             !.session_id = sid, !.session = doc]]
    /\ UNCHANGED <<ingestVars, ownerVars, userVars>>

\* chat, request with a session_id: lines 232-245
ChatFind(r, u, q, sid) ==
    /\ CanArrive(r)
    /\ chat' = [chat EXCEPT ![r] = [IdleReq EXCEPT
                                       !.pc = "found", !.user = u, !.question = q,
                                       !.session_id = sid, !.supplied = TRUE,
                                       !.session = FindOne(sid),
                                       !.found = Len(FindOne(sid).messages)]]
    /\ UNCHANGED <<sessions, uuids>>
    /\ UNCHANGED <<ingestVars, ownerVars, userVars>>

\* lines 246-250, caught at 273
ChatNotFound(r) ==
    /\ IngestIdle
    /\ chat[r].pc = "found"
    /\ chat[r].session = NoSession
    /\ chat' = ChatExcept(r, HTTPException(404))
    /\ UNCHANGED <<sessions, uuids>>
    /\ UNCHANGED <<ingestVars, ownerVars, userVars>>

\* lines 252-256, caught at 273
ChatForbidden(r) ==
    /\ IngestIdle
    /\ chat[r].pc = "found"
    /\ chat[r].session # NoSession
    /\ chat[r].session.user_id # chat[r].user
    /\ chat' = ChatExcept(r, HTTPException(403))
    /\ UNCHANGED <<sessions, uuids>>
    /\ UNCHANGED <<ingestVars, ownerVars, userVars>>

\* lines 258-259 without the save of line 259
ChatAppendUserUnsaved(r) ==
    /\ IngestIdle
    /\ chat[r].pc = "found"
    /\ chat[r].session # NoSession
    /\ chat[r].session.user_id = chat[r].user
    /\ chat' = [chat EXCEPT ![r].pc = "ask",
                            ![r].session.messages =
                                Append(@, Message(chat[r].question, "user"))]
    /\ UNCHANGED <<sessions, uuids>>
    /\ UNCHANGED <<ingestVars, ownerVars, userVars>>

\* lines 258-259
ChatAppendUser(r) ==
    /\ IngestIdle
    /\ chat[r].pc = "found"
    /\ chat[r].session # NoSession
    /\ chat[r].session.user_id = chat[r].user
    /\ LET doc == [chat[r].session EXCEPT
                     !.messages = Append(@, Message(chat[r].question, "user"))]
       IN /\ sessions' = Stored(chat[r].session_id, doc)
          /\ chat' = [chat EXCEPT ![r].pc = "ask", ![r].session = doc]
    /\ UNCHANGED uuids
    /\ UNCHANGED <<ingestVars, ownerVars, userVars>>

\* lines 262-271
ChatAnswer(r) ==
    /\ IngestIdle
    /\ chat[r].pc = "ask"
    /\ LET doc == [chat[r].session EXCEPT
                     !.messages = Append(@, Message(AnswerTo(chat[r].question), "assistant"))]
       IN /\ sessions' = Stored(chat[r].session_id, doc)
          /\ chat' = [chat EXCEPT ![r].pc = "done", ![r].session = NoSession,
                                   ![r].status = 200]
    /\ UNCHANGED uuids
    /\ UNCHANGED <<ingestVars, ownerVars, userVars>>

\* line 262 raises, caught at 273
ChatLLMFail(r) ==
    /\ IngestIdle
    /\ chat[r].pc = "ask"
    /\ chat' = ChatExcept(r, LLMError)
    /\ UNCHANGED <<sessions, uuids>>
    /\ UNCHANGED <<ingestVars, ownerVars, userVars>>

\* a client that sends a request on a session only when no other request on
\* that session is being handled
SerialChatFind(r, u, q, sid) ==
    /\ \A p \in OnSession(sid) : ~InFlight(p)
    /\ ChatFind(r, u, q, sid)

ChatNext ==
    \/ \E r \in Req, u \in UserIds, q \in Questions : ChatNew(r, u, q)
    \/ \E r \in Req, u \in UserIds, q \in Questions, sid \in SidSpace : ChatFind(r, u, q, sid)
    \/ \E r \in Req : ChatNotFound(r)
    \/ \E r \in Req : ChatForbidden(r)
    \/ \E r \in Req : ChatAppendUser(r)
    \/ \E r \in Req : ChatAnswer(r)
    \/ \E r \in Req : ChatLLMFail(r)

(***************************************************************************)
(* delete_session and get_sessions.                                        *)
(***************************************************************************)

\* a delete_session request: where its handler stands, the request, the
\* session find_one returned, the exception raised and the status
IdleDel == [pc |-> "idle", user |-> 0, session_id |-> 0, session |-> NoSession,
            raised |-> NoExc, status |-> 0]

\* no get_sessions request has been answered
NoListing == [user |-> 0, sessions |-> << >>]

OwnerInit ==
    /\ deletion = IdleDel
    /\ dels = 0
    /\ listing = NoListing

\* the collection after session.delete()
Deleted(sid) == [s \in (DOMAIN sessions) \ {sid} |-> sessions[s]]

\* delete_session: line 338
DeleteFind(u, sid) ==
    /\ IngestIdle
    /\ listing = NoListing
    /\ deletion.pc \in {"idle", "done"}
    /\ dels < MaxDelete
    /\ dels' = dels + 1
    /\ deletion' = [IdleDel EXCEPT !.pc = "found", !.user = u, !.session_id = sid,
                                   !.session = FindOne(sid)]
    /\ UNCHANGED listing
    /\ UNCHANGED <<chatVars, ingestVars, userVars>>

\* lines 339-343, re-raised at 360-361
DeleteNotFound ==
    /\ IngestIdle
    /\ deletion.pc = "found"
    /\ deletion.session = NoSession
    /\ deletion' = [deletion EXCEPT !.pc = "done", !.raised = HTTPException(404),
                                    !.status = 404]
    /\ UNCHANGED <<dels, listing>>
    /\ UNCHANGED <<chatVars, ingestVars, userVars>>

\* lines 346-350, re-raised at 360-361
DeleteForbidden ==
    /\ IngestIdle
    /\ deletion.pc = "found"
    /\ deletion.session # NoSession
    /\ deletion.session.user_id # deletion.user
    /\ deletion' = [deletion EXCEPT !.pc = "done", !.session = NoSession,
                                    !.raised = HTTPException(403), !.status = 403]
    /\ UNCHANGED <<dels, listing>>
    /\ UNCHANGED <<chatVars, ingestVars, userVars>>

\* lines 353-358 without the check of lines 346-350
DeleteSessionUnverified ==
    /\ IngestIdle
    /\ deletion.pc = "found"
    /\ deletion.session # NoSession
    /\ sessions' = Deleted(deletion.session_id)
    /\ deletion' = [deletion EXCEPT !.pc = "done", !.session = NoSession, !.status = 200]
    /\ UNCHANGED <<uuids, chat>>
    /\ UNCHANGED <<dels, listing>>
    /\ UNCHANGED <<ingestVars, userVars>>

\* lines 353-358
DeleteSession ==
    /\ IngestIdle
    /\ deletion.pc = "found"
    /\ deletion.session # NoSession
    /\ deletion.session.user_id = deletion.user
    /\ sessions' = Deleted(deletion.session_id)
    /\ deletion' = [deletion EXCEPT !.pc = "done", !.session = NoSession, !.status = 200]
    /\ UNCHANGED <<uuids, chat>>
    /\ UNCHANGED <<dels, listing>>
    /\ UNCHANGED <<ingestVars, userVars>>

\* the ids of ids from the last created to the first (uuids are numbered in
\* the order of their creation): sort(-Session.created_at)
RECURSIVE NewestFirst(_)
NewestFirst(ids) ==
    IF ids = {} THEN << >>
    ELSE LET last == CHOOSE i \in ids : \A j \in ids : j <= i
         IN <<last>> \o NewestFirst(ids \ {last})

\* Session.find(Session.user_id == str(current_user.user_id)).sort(...).to_list()
FindSessions(u) ==
    LET ids == NewestFirst({sid \in DOMAIN sessions : sessions[sid].user_id = u})
    IN [k \in DOMAIN ids |->
          [session_id |-> ids[k], user_id |-> sessions[ids[k]].user_id,
           messages |-> sessions[ids[k]].messages]]

\* get_sessions: lines 299-304 (the model follows one get_sessions request, the
\* last request to arrive)
GetSessions(u) ==
    /\ IngestIdle
    /\ listing = NoListing
    /\ listing' = [user |-> u, sessions |-> FindSessions(u)]
    /\ UNCHANGED <<deletion, dels>>
    /\ UNCHANGED <<chatVars, ingestVars, userVars>>

OwnerNext ==
    \/ \E u \in UserIds, sid \in SidSpace : DeleteFind(u, sid)
    \/ DeleteNotFound
    \/ DeleteForbidden
    \/ DeleteSession
    \/ \E u \in UserIds : GetSessions(u)

(***************************************************************************)
(* register_user.  The handler gives up the event loop at get_user, at     *)
(* DBUser.count and at db_user.insert.                                     *)
(***************************************************************************)

Usernames == {"user", "ana", "ben"}

UserTypes == {"user", "admin"}

Reg == 1..NumReg

\* the users collection when the requests of the model arrive: the two users
\* of UserIds, registered one after the other
StoredUsers ==
    <<[user_id |-> 1, username |-> "admin", user_type |-> UserType(1)],
      [user_id |-> 2, username |-> "user", user_type |-> UserType(2)]>>

\* a register request: where its handler stands, the request, what get_user
\* found and what count returned, and the status of the response
IdleReg == [pc |-> "idle", username |-> "", user_type |-> "", exists |-> FALSE,
            count |-> 0, status |-> 0]

UserInit ==
    /\ users = StoredUsers
    /\ reg = [g \in Reg |-> IdleReg]

\* get_user(username): is there a stored user of that name
GetUser(username) == \E k \in DOMAIN users : users[k].username = username

\* register_user: line 65, the await of get_user
RegisterGetUser(g, username, user_type) ==
    /\ IngestIdle
    /\ reg[g].pc = "idle"
    /\ \A p \in Reg : p < g => reg[p].pc # "idle"
    /\ reg' = [reg EXCEPT ![g] = [IdleReg EXCEPT !.pc = "checked", !.username = username,
                                                 !.user_type = user_type,
                                                 !.exists = GetUser(username)]]
    /\ UNCHANGED users
    /\ UNCHANGED <<chatVars, ingestVars, ownerVars>>

\* lines 65-69
RegisterTaken(g) ==
    /\ IngestIdle
    /\ reg[g].pc = "checked"
    /\ reg[g].exists
    /\ reg' = [reg EXCEPT ![g].pc = "done", ![g].status = 400]
    /\ UNCHANGED users
    /\ UNCHANGED <<chatVars, ingestVars, ownerVars>>

\* lines 71-73, the await of DBUser.count
RegisterCount(g) ==
    /\ IngestIdle
    /\ reg[g].pc = "checked"
    /\ ~reg[g].exists
    /\ reg' = [reg EXCEPT ![g].pc = "counted", ![g].count = Len(users)]
    /\ UNCHANGED users
    /\ UNCHANGED <<chatVars, ingestVars, ownerVars>>

\* lines 72-86: user_id = count + 1, db_user.insert(), the response
RegisterInsert(g) ==
    /\ IngestIdle
    /\ reg[g].pc = "counted"
    /\ users' = Append(users, [user_id |-> reg[g].count + 1, username |-> reg[g].username,
                               user_type |-> reg[g].user_type])
    /\ reg' = [reg EXCEPT ![g].pc = "done", ![g].status = 200]
    /\ UNCHANGED <<chatVars, ingestVars, ownerVars>>

RegisterNext ==
    \/ \E g \in Reg, username \in Usernames, user_type \in UserTypes :
         RegisterGetUser(g, username, user_type)
    \/ \E g \in Reg : RegisterTaken(g)
    \/ \E g \in Reg : RegisterCount(g)
    \/ \E g \in Reg : RegisterInsert(g)

(***************************************************************************)
(* Ingestion: URLIngestion, FileIngestion, DocumentIngestion and the two   *)
(* ingestion endpoints.                                                    *)
(***************************************************************************)

\* a text is a sequence of characters; the empty text is a file or a page
\* from which nothing can be extracted
T1 == <<"a", "a", "a">>

T2 == <<"a", "b">>

Texts == {T1, T2}

NoText == << >>

\* a file of the data directory is <<name without extension, extension>>
TxtPath(base) == <<base, "txt">>

\* UploadFile.filename
UploadNames == {<<"a", "txt">>, <<"a", "pdf">>, <<"c", "doc">>}

\* a URL is <<what precedes its last '/', what follows it>>
Urls == {<<"h", "a">>, <<"g", "a">>, <<"h", "">>}

\* the text of the page at a URL (two of the pages have the same text)
PageText(url) == IF url = <<"g", "a">> THEN T2 ELSE T1

UrlLists ==
    {l \in UNION {[1..n -> Urls] : n \in 1..MaxUrls} :
        \A i, j \in DOMAIN l : l[i] = l[j] => i = j}

\* hashlib.md5(text).hexdigest(): one digest per text, no collisions.  A digest
\* is written as the text between two marks that no text holds, so that a
\* digest followed by a text is again a text, and a different one for
\* different digests or texts (as with the 32 characters of a hexdigest)
Md5(text) == <<"<">> \o text \o <<">">>

\* Embedder.openai_embedding(text)
Embedding(text) == <<"embedding", text>>

\* RecursiveCharacterTextSplitter.split_text on a text without separators:
\* windows of chunk_size characters, each starting with the last
\* chunk_overlap characters of the one before
RECURSIVE SplitFrom(_, _)
SplitFrom(text, start) ==
    IF start + ChunkSize >= Len(text) + 1
    THEN <<SubSeq(text, start, Len(text))>>
    ELSE <<SubSeq(text, start, start + ChunkSize - 1)>>
         \o SplitFrom(text, start + ChunkSize - ChunkOverlap)

SplitText(text) == IF text = NoText THEN << >> ELSE SplitFrom(text, 1)

\* a resource_id made of the name of the file and of its content
ResourceIdOfFile(file_path, content) == Md5(<<file_path[1]>> \o content)

\* resource_id of create_resource_document
ResourceId(file_path, content) == Md5(content)

\* chunk_id of chunk_document: md5 of the resource id followed by the chunk text
ChunkId(resource_id, i, chunk_text) == Md5(resource_id \o chunk_text)

\* the resource document create_resource_document builds
ResourceDoc(file_path, content) ==
    [id |-> ResourceId(file_path, content), title |-> file_path[1],
     resource_text |-> content, embedding |-> Embedding(content),
     source |-> file_path]

\* the chunk documents chunk_document builds
ChunkDocs(resource_id, content) ==
    LET split == SplitText(content)
    IN [k \in DOMAIN split |->
          [id |-> ChunkId(resource_id, k - 1, split[k]), resource_id |-> resource_id,
           chunk_text |-> split[k], embedding |-> Embedding(split[k]),
           chunk_index |-> k - 1]]

\* VespaClient.insert_one: the document is stored under its id
InsertOne(coll, doc) ==
    [id \in (DOMAIN coll) \cup {doc.id} |-> IF id = doc.id THEN doc ELSE coll[id]]

\* VespaClient.insert_many: the documents are stored one after the other
RECURSIVE InsertMany(_, _)
InsertMany(coll, docs) ==
    IF docs = << >> THEN coll ELSE InsertMany(InsertOne(coll, Head(docs)), Tail(docs))

\* the embedder has been called once more for each id of ids (a sequence)
RECURSIVE Called(_, _)
Called(calls, ids) ==
    IF ids = << >> THEN calls
    ELSE LET id == Head(ids)
             n == IF id \in DOMAIN calls THEN calls[id] ELSE 0
         IN Called([x \in (DOMAIN calls) \cup {id} |-> IF x = id THEN n + 1 ELSE calls[x]],
                   Tail(ids))

NoFile == [path |-> <<"", "">>, content |-> NoText]

NoDoc == [id |-> Md5(NoText)]

\* an ingestion request: where its handler stands, the request (kind, user,
\* urls), the URLs whose text was extracted, the files written for the request
\* (own), the files and the locals of ingest_documents, the exception raised,
\* and the status and the processed_urls of the response
IdleIng == [pc |-> "idle", kind |-> "", user |-> 0, urls |-> << >>, extracted |-> {},
            own |-> {}, files |-> {}, pending |-> {},
            file |-> NoFile, resource_doc |-> NoDoc, chunk_docs |-> << >>,
            done |-> {}, raised |-> NoExc, status |-> 0, processed_urls |-> << >>]

IngestInit ==
    /\ dataDir = << >>
    /\ resources = << >>
    /\ chunks = << >>
    /\ embedCalls = << >>
    /\ fetched = {}
    /\ ingests = 0
    /\ ing = IdleIng

CanIngest == IngestIdle /\ ingests < MaxIngest

\* no check of the user type
NotAdminUnchecked(u) == FALSE

\* current_user.user_type != "admin"
NotAdmin(u) == UserType(u) # "admin"

\* the data directory after open(filepath, 'w').write(text)
Written(dir, path, text) ==
    [f \in (DOMAIN dir) \cup {path} |-> IF f = path THEN text ELSE dir[f]]

\* url.split('/')[-1] or 'index', then f"{filename}.txt"
UrlFile(url) == TxtPath(IF url[2] = "" THEN "index" ELSE url[2])

\* URLIngestion.process_urls: the data directory after the URLs of urls have
\* been processed, those of failing yielding no text
RECURSIVE ProcessUrls(_, _, _)
ProcessUrls(dir, urls, failing) ==
    IF urls = << >> THEN dir
    ELSE IF Head(urls) \in failing
         THEN ProcessUrls(dir, Tail(urls), failing)
         ELSE ProcessUrls(Written(dir, UrlFile(Head(urls)), PageText(Head(urls))),
                          Tail(urls), failing)

\* FileIngestion.process_file: the uploaded file is saved, and its text, when
\* there is one, is saved beside it as a .txt file
ProcessFile(dir, name, text) ==
    LET saved == Written(dir, name, text)
    IN IF text = NoText THEN saved ELSE Written(saved, TxtPath(name[1]), text)

\* DocumentIngestion.get_files_to_ingest: glob("*.txt")
GetFilesToIngest(dir) == {f \in DOMAIN dir : f[2] = "txt"}

\* delete_temporary_files: every .txt and .pdf file is removed
DeleteTemporaryFiles(dir) ==
    [f \in {g \in DOMAIN dir : g[2] \notin {"txt", "pdf"}} |-> dir[f]]

\* a request answered before the handler does anything
Rejected(kind, u, code) ==
    [IdleIng EXCEPT !.pc = "done", !.kind = kind, !.user = u,
                    !.raised = HTTPException(code), !.status = code]

\* the handler has the files of the data directory to ingest
Started(kind, u, dir) ==
    [IdleIng EXCEPT !.pc = "loop", !.kind = kind, !.user = u,
                    !.files = GetFilesToIngest(dir), !.pending = GetFilesToIngest(dir)]

\* an except clause that logs the error and goes on with the next file
IngestRaiseSwallowed(exc) ==
    [ing EXCEPT !.pc = "loop", !.raised = exc, !.file = NoFile,
                !.resource_doc = NoDoc, !.chunk_docs = << >>]

\* ingest_documents: except Exception: raise; endpoint: except Exception as e:
\* raise HTTPException(status_code=500)
IngestRaise(exc) ==
    [ing EXCEPT !.pc = "done", !.raised = exc, !.status = 500]

EmbedError == [kind |-> "embed", status |-> 0]

IndexError == [kind |-> "index", status |-> 0]

\* ingest_urls: lines 109-124 (the admin check, process_urls, get_files_to_ingest)
IngestUrls(u, urls, failing) ==
    /\ CanIngest
    /\ ingests' = ingests + 1
    /\ IF NotAdmin(u)
       THEN /\ ing' = Rejected("urls", u, 403)
            /\ UNCHANGED <<dataDir, fetched>>
       ELSE /\ fetched' = fetched \cup {urls[i] : i \in DOMAIN urls}
            /\ dataDir' = ProcessUrls(dataDir, urls, failing)
            /\ LET extracted == {urls[i] : i \in DOMAIN urls} \ failing
               IN ing' = [Started("urls", u, dataDir') EXCEPT
                             !.urls = urls, !.extracted = extracted,
                             !.own = {UrlFile(url) : url \in extracted}]
    /\ UNCHANGED <<resources, chunks, embedCalls>>
    /\ UNCHANGED <<chatVars, ownerVars, userVars>>

\* ingest_file: lines 163-194 (the checks, process_file, get_files_to_ingest)
IngestFile(u, name, text) ==
    /\ CanIngest
    /\ ingests' = ingests + 1
    /\ IF NotAdmin(u)
       THEN /\ ing' = Rejected("file", u, 403)
            /\ UNCHANGED dataDir
       ELSE IF name[2] \notin {"pdf", "txt"}
       THEN /\ ing' = Rejected("file", u, 400)
            /\ UNCHANGED dataDir
       ELSE /\ dataDir' = ProcessFile(dataDir, name, text)
            /\ IF text = NoText
               THEN ing' = [IdleIng EXCEPT !.pc = "done", !.kind = "file", !.user = u,
                                           !.own = {name},
                                           !.raised = HTTPException(400), !.status = 500]
               ELSE ing' = [Started("file", u, dataDir') EXCEPT
                               !.own = {name, TxtPath(name[1])}]
    /\ UNCHANGED <<resources, chunks, embedCalls, fetched>>
    /\ UNCHANGED <<chatVars, ownerVars, userVars>>

\* ingest_documents: lines 138-145, the embedding of the whole content computed
IngestCreateResource(f) ==
    /\ ing.pc = "loop"
    /\ f \in ing.pending
    /\ LET doc == ResourceDoc(f, dataDir[f])
       IN /\ embedCalls' = Called(embedCalls, <<doc.id>>)
          /\ ing' = [ing EXCEPT !.pc = "resource", !.pending = @ \ {f},
                                !.file = [path |-> f, content |-> dataDir[f]],
                                !.resource_doc = doc]
    /\ UNCHANGED <<dataDir, resources, chunks, fetched, ingests>>
    /\ UNCHANGED <<chatVars, ownerVars, userVars>>

\* line 67 raises
IngestCreateResourceFail(f) ==
    /\ ing.pc = "loop"
    /\ f \in ing.pending
    /\ embedCalls' = Called(embedCalls, <<ResourceId(f, dataDir[f])>>)
    /\ ing' = [IngestRaise(EmbedError) EXCEPT
                  !.pending = @ \ {f}, !.file = [path |-> f, content |-> dataDir[f]]]
    /\ UNCHANGED <<dataDir, resources, chunks, fetched, ingests>>
    /\ UNCHANGED <<chatVars, ownerVars, userVars>>

\* line 148 left out
IngestInsertResourceSkipped ==
    /\ ing.pc = "resource"
    /\ ing' = [ing EXCEPT !.pc = "chunk"]
    /\ UNCHANGED <<dataDir, resources, chunks, embedCalls, fetched, ingests>>
    /\ UNCHANGED <<chatVars, ownerVars, userVars>>

\* line 148
IngestInsertResource ==
    /\ ing.pc = "resource"
    /\ resources' = InsertOne(resources, ing.resource_doc)
    /\ ing' = [ing EXCEPT !.pc = "chunk"]
    /\ UNCHANGED <<dataDir, chunks, embedCalls, fetched, ingests>>
    /\ UNCHANGED <<chatVars, ownerVars, userVars>>

\* line 148 raises
IngestInsertResourceFail ==
    /\ ing.pc = "resource"
    /\ ing' = IngestRaise(IndexError)
    /\ UNCHANGED <<dataDir, resources, chunks, embedCalls, fetched, ingests>>
    /\ UNCHANGED <<chatVars, ownerVars, userVars>>

\* line 151: chunk_document, the embedding of every chunk computed
IngestChunkDocument ==
    /\ ing.pc = "chunk"
    /\ LET docs == ChunkDocs(ing.resource_doc.id, ing.file.content)
       IN /\ embedCalls' = Called(embedCalls, [k \in DOMAIN docs |-> docs[k].id])
          /\ ing' = [ing EXCEPT !.pc = "chunks", !.chunk_docs = docs]
    /\ UNCHANGED <<dataDir, resources, chunks, fetched, ingests>>
    /\ UNCHANGED <<chatVars, ownerVars, userVars>>

\* line 107 raises at the n-th chunk
IngestChunkDocumentFail(n) ==
    /\ ing.pc = "chunk"
    /\ LET docs == ChunkDocs(ing.resource_doc.id, ing.file.content)
       IN /\ n \in DOMAIN docs
          /\ embedCalls' = Called(embedCalls, [k \in 1..n |-> docs[k].id])
    /\ ing' = IngestRaise(EmbedError)
    /\ UNCHANGED <<dataDir, resources, chunks, fetched, ingests>>
    /\ UNCHANGED <<chatVars, ownerVars, userVars>>

\* lines 154-156
IngestInsertChunks ==
    /\ ing.pc = "chunks"
    /\ chunks' = InsertMany(chunks, ing.chunk_docs)
    /\ ing' = [ing EXCEPT !.pc = "loop", !.done = @ \cup {ing.file},
                          !.file = NoFile, !.resource_doc = NoDoc, !.chunk_docs = << >>]
    /\ UNCHANGED <<dataDir, resources, embedCalls, fetched, ingests>>
    /\ UNCHANGED <<chatVars, ownerVars, userVars>>

\* line 154 raises when n of the chunk documents have been stored
IngestInsertChunksFail(n) ==
    /\ ing.pc = "chunks"
    /\ n \in 0..(Len(ing.chunk_docs) - 1)
    /\ chunks' = InsertMany(chunks, SubSeq(ing.chunk_docs, 1, n))
    /\ ing' = IngestRaise(IndexError)
    /\ UNCHANGED <<dataDir, resources, embedCalls, fetched, ingests>>
    /\ UNCHANGED <<chatVars, ownerVars, userVars>>

\* ingest_documents returns; delete_temporary_files; the success response
\* ("processed_urls": urls in ingest_urls)
IngestFinish ==
    /\ ing.pc = "loop"
    /\ ing.pending = {}
    /\ dataDir' = DeleteTemporaryFiles(dataDir)
    /\ ing' = [ing EXCEPT !.pc = "done", !.status = 200, !.processed_urls = ing.urls]
    /\ UNCHANGED <<resources, chunks, embedCalls, fetched, ingests>>
    /\ UNCHANGED <<chatVars, ownerVars, userVars>>

IngestNext ==
    \/ \E u \in UserIds, urls \in UrlLists :
         \E failing \in SUBSET {urls[i] : i \in DOMAIN urls} : IngestUrls(u, urls, failing)
    \/ \E u \in UserIds, name \in UploadNames, text \in Texts \cup {NoText} :
         IngestFile(u, name, text)
    \/ \E f \in ing.pending : IngestCreateResource(f)
    \/ \E f \in ing.pending : IngestCreateResourceFail(f)
    \/ IngestInsertResource
    \/ IngestInsertResourceFail
    \/ IngestChunkDocument
    \/ \E n \in 1..Len(ing.file.content) : IngestChunkDocumentFail(n)
    \/ IngestInsertChunks
    \/ \E n \in 0..Len(ing.file.content) : IngestInsertChunksFail(n)
    \/ IngestFinish

SerialChatNext ==
    \/ \E r \in Req, u \in UserIds, q \in Questions : ChatNew(r, u, q)
    \/ \E r \in Req, u \in UserIds, q \in Questions, sid \in SidSpace :
         SerialChatFind(r, u, q, sid)
    \/ \E r \in Req : ChatNotFound(r)
    \/ \E r \in Req : ChatForbidden(r)
    \/ \E r \in Req : ChatAppendUser(r)
    \/ \E r \in Req : ChatAnswer(r)
    \/ \E r \in Req : ChatLLMFail(r)

Init == ChatInit /\ IngestInit /\ OwnerInit /\ UserInit

Next == ChatNext \/ IngestNext \/ OwnerNext \/ RegisterNext

Spec == Init /\ [][Next]_vars

\* the chat requests alone
ChatSpec == Init /\ [][ChatNext]_vars

\* the chat requests alone, no two of them on one session at a time
SerialChatSpec == Init /\ [][SerialChatNext]_vars

\* the ingestion requests alone
IngestSpec == Init /\ [][IngestNext]_vars

\* the chat requests, no two of them on one session at a time, and the
\* delete_session and get_sessions requests
SessionSpec == Init /\ [][SerialChatNext \/ OwnerNext]_vars

\* the register requests alone
RegisterSpec == Init /\ [][RegisterNext]_vars

(***************************************************************************)
(* The chat claims.                                                        *)
(***************************************************************************)

\* the turns the handler of request r has appended to its session so far
Turns(r) ==
    IF chat[r].pc = "ask" \/ (chat[r].pc = "done" /\ chat[r].raised = LLMError)
    THEN <<Message(chat[r].question, "user")>>
    ELSE IF chat[r].pc = "done" /\ chat[r].status = 200
    THEN <<Message(chat[r].question, "user"),
           Message(AnswerTo(chat[r].question), "assistant")>>
    ELSE << >>

\* the turns appended to session sid by the requests 1..n, in their order
RECURSIVE TurnsUpTo(_, _)
TurnsUpTo(sid, n) ==
    IF n = 0 THEN << >>
    ELSE TurnsUpTo(sid, n - 1) \o (IF n \in OnSession(sid) THEN Turns(n) ELSE << >>)

\* how many messages of the sequence msgs are equal to m
Count(msgs, m) == Cardinality({k \in DOMAIN msgs : msgs[k] = m})

\* C2: when two or more requests that supplied the id of a session, and found
\* the session holding every turn of the request that created it, have all
\* been handled, the stored history of the session holds every turn they
\* appended, once each: it is as long as the turns appended to it are many.
C2_AppendsSerialized ==
    \A sid \in DOMAIN sessions :
        LET on == OnSession(sid)
            others == {r \in on : chat[r].supplied}
        IN (/\ \A r \in on : ~InFlight(r)
            /\ \A r \in others, c \in on \ others : chat[r].found >= Len(Turns(c)))
           => Len(sessions[sid].messages) = Len(TurnsUpTo(sid, NumReq))

\* C3: a request on a session id that does not exist is answered 404.
C3_UnknownSessionIs404 ==
    \A r \in Req :
        (chat[r].pc = "done" /\ chat[r].raised = HTTPException(404))
            => chat[r].status = 404

\* C4: with no two requests on one session at a time, the stored history of a
\* session is the turns of its requests in the order of the requests: the
\* question alone for a request whose language-model call failed, the question
\* and one assistant turn for a request that succeeded, before or after it.
C4_FailureLeavesQuestion ==
    \A sid \in DOMAIN sessions : sessions[sid].messages = TurnsUpTo(sid, NumReq)

\* C4's case: a request failed in the language model and a later request on
\* the same session succeeded.
C4_Witness ==
    \E f, k \in Req :
        /\ f < k
        /\ chat[f].session_id = chat[k].session_id
        /\ chat[f].pc = "done" /\ chat[f].raised = LLMError
        /\ chat[k].pc = "done" /\ chat[k].status = 200 /\ chat[k].supplied

\* C5: when a question failed in the language model and was then asked again
\* on the same session, successfully, and by no other request, the stored
\* history holds the question as one user turn, not two.
C5_RetryNotDuplicated ==
    \A sid \in DOMAIN sessions, f, k \in Req :
        (/\ f < k
         /\ {f, k} \subseteq OnSession(sid)
         /\ chat[f].question = chat[k].question
         /\ chat[f].pc = "done" /\ chat[f].raised = LLMError
         /\ chat[k].pc = "done" /\ chat[k].status = 200
         /\ \A r \in OnSession(sid) \ {f, k} :
                chat[r].question # chat[f].question /\ ~InFlight(r))
        => Count(sessions[sid].messages, Message(chat[f].question, "user")) <= 1

(***************************************************************************)
(* The ingestion claims.                                                   *)
(***************************************************************************)

\* the paths of the documents the run has ingested
DonePaths == {d.path : d \in ing.done}

\* the index holds the entry of the document and the entry of each its chunks
Complete(d) ==
    /\ ResourceDoc(d.path, d.content).id \in DOMAIN resources
    /\ LET docs == ChunkDocs(ResourceDoc(d.path, d.content).id, d.content)
       IN \A k \in DOMAIN docs : docs[k].id \in DOMAIN chunks

\* C1: when embedding or indexing has failed for one document of a run, every
\* other document of the run has been ingested once the run is over.
C1_FailureIsolated ==
    (ing.pc = "done" /\ ing.raised \in {EmbedError, IndexError})
        => \A f \in ing.files : f = ing.file.path \/ f \in DonePaths

\* C6: a text has one document entry, whatever file it was ingested from and
\* however often, and a document has one chunk entry for a chunk text: a second
\* ingestion of a text writes under the ids of the first and adds no entry.
C6_SameTextSameEntries ==
    /\ \A i, j \in DOMAIN resources :
          resources[i].resource_text = resources[j].resource_text => i = j
    /\ \A i, j \in DOMAIN chunks :
          (/\ chunks[i].resource_id = chunks[j].resource_id
           /\ chunks[i].chunk_text = chunks[j].chunk_text) => i = j

\* C6's case: one text has been ingested from two files of a run, after an
\* earlier ingestion of the same text.
C6_Witness ==
    /\ ing.pc = "done" /\ ing.status = 200
    /\ \E d, e \in ing.done :
          /\ d.path # e.path /\ d.content = e.content
          /\ Complete(d)
          /\ embedCalls[ResourceDoc(d.path, d.content).id] >= 3

\* C7 as claimed: an entry of a document, the document entry or a chunk entry,
\* is written only when the document has been chunked and the embeddings of
\* the document and of all its chunks have been computed.
C7_WrittenAfterAllEmbedded ==
    [][(resources' # resources \/ chunks' # chunks) => ing.pc = "chunks"]_vars

\* C7 as amended: the document entry is written when the embedding of the
\* whole document has been computed, before the document is chunked; a chunk
\* entry is written only when the document entry is in the index, the document
\* has been chunked and the embedding of every chunk has been computed.
C7_WriteOrder ==
    [][/\ resources' # resources =>
            /\ ing.pc = "resource"
            /\ ing.resource_doc.embedding = Embedding(ing.file.content)
            /\ ing.chunk_docs = << >>
            /\ resources' = InsertOne(resources, ing.resource_doc)
       /\ chunks' # chunks =>
            /\ ing.pc = "chunks"
            /\ ing.resource_doc.id \in DOMAIN resources
            /\ Len(ing.chunk_docs) = Len(SplitText(ing.file.content))
            /\ \A k \in DOMAIN ing.chunk_docs :
                  /\ ing.chunk_docs[k].embedding = Embedding(ing.chunk_docs[k].chunk_text)
                  /\ ing.chunk_docs[k].resource_id = ing.resource_doc.id
            /\ \A id \in DOMAIN chunks' :
                  \/ id \in DOMAIN chunks /\ chunks'[id].resource_id = chunks[id].resource_id
                  \/ chunks'[id].resource_id = ing.resource_doc.id]_vars

\* C7's case: a document of two chunks has been ingested.
C7_Witness ==
    \E d \in ing.done :
        /\ Len(SplitText(d.content)) >= 2
        /\ Complete(d)

\* C8: a run in which embedding or an index write failed is answered 500, and
\* a run answered 200 has ingested every document it had, each with its
\* document entry and all its chunk entries.
C8_FailureIsReported ==
    /\ (ing.pc = "done" /\ ing.raised \in {EmbedError, IndexError}) => ing.status = 500
    /\ ing.status = 200 =>
          /\ ing.raised = NoExc
          /\ ing.files = DonePaths
          /\ \A d \in ing.done : Complete(d)

\* C8's case: the run is over, an index write or an embedding having failed
\* for a document whose document entry is written and whose chunk entries are
\* not all written.
C8_Witness ==
    /\ ing.pc = "done"
    /\ ing.raised \in {EmbedError, IndexError}
    /\ ing.resource_doc.id \in DOMAIN resources
    /\ ~Complete(ing.file)

\* C9: the embedder is not invoked again for a document that is in the index
\* with all its chunks, nor for one of its chunks.
C9_EmbeddedOncePerId ==
    [][\A id \in DOMAIN resources :
          LET docs == ChunkDocs(id, resources[id].resource_text)
          IN (\A k \in DOMAIN docs : docs[k].id \in DOMAIN chunks)
             => /\ embedCalls'[id] = embedCalls[id]
                /\ \A k \in DOMAIN docs : embedCalls'[docs[k].id] = embedCalls[docs[k].id]]_vars

\* C10: a request of a user who is not an admin is answered 403, and the step
\* that answers it fetches no URL, leaves the data directory as it is, with
\* no file written or deleted, writes nothing to the index and embeds nothing.
C10_OnlyAdminsIngest ==
    [][(ing' # ing /\ UserType(ing'.user) # "admin") =>
          /\ ing'.pc = "done" /\ ing'.status = 403
          /\ UNCHANGED <<dataDir, resources, chunks, embedCalls, fetched>>]_vars

\* C10's case: a user who is not an admin has been refused while the data
\* directory held files.
C10_Witness ==
    /\ ing.pc = "done" /\ ing.status = 403
    /\ UserType(ing.user) # "admin"
    /\ DOMAIN dataDir # {}

(***************************************************************************)
(* The claims on the ownership of sessions and on new sessions.            *)
(***************************************************************************)

\* C11: a step that creates a session, changes its stored messages or removes
\* it is a step of a chat or delete_session request of the user whose id is
\* the session's user_id, and of a request that is not rejected; so a request
\* of another user leaves the stored session as it is.  The sessions that
\* get_sessions returns are sessions of the requesting user.
C11_OnlyOwnerModifies ==
    [][/\ \A sid \in (DOMAIN sessions) \cup (DOMAIN sessions') :
            LET owner == IF sid \in DOMAIN sessions THEN sessions[sid].user_id
                         ELSE sessions'[sid].user_id
                kept == /\ sid \in DOMAIN sessions
                        /\ sid \in DOMAIN sessions'
                        /\ sessions'[sid] = sessions[sid]
            IN kept \/ (\E r \in Req : /\ chat'[r] # chat[r]
                                       /\ chat'[r].session_id = sid
                                       /\ chat'[r].user = owner
                                       /\ chat'[r].raised = NoExc)
                    \/ (/\ deletion' # deletion
                        /\ deletion'.session_id = sid
                        /\ deletion'.user = owner
                        /\ deletion'.status = 200)
       /\ listing' # listing =>
            \A k \in DOMAIN listing'.sessions :
                /\ listing'.sessions[k].user_id = listing'.user
                /\ listing'.sessions[k].session_id \in DOMAIN sessions
                /\ sessions[listing'.sessions[k].session_id].user_id = listing'.user]_vars

\* C11's case: a chat request and a delete_session request on a session of
\* another user have been rejected, the session being stored, and a user has
\* been given the sessions of theirs while another user had sessions too.
C11_Witness ==
    /\ deletion.pc = "done" /\ deletion.status = 403
    /\ deletion.session_id \in DOMAIN sessions
    /\ sessions[deletion.session_id].user_id # deletion.user
    /\ \E r \in Req : /\ chat[r].pc = "done" /\ chat[r].raised = HTTPException(403)
                      /\ chat[r].session_id \in DOMAIN sessions
    /\ Len(listing.sessions) >= 1
    /\ \E sid \in DOMAIN sessions : sessions[sid].user_id # listing.user

\* C12: the step that takes a chat request without a session id adds one
\* session to the stored ones, under an id that no session has had, with the
\* requesting user as its user_id, and leaves the other sessions as they are;
\* the step that answers such a request with success leaves its session
\* stored with the question and the answer as its two messages, in that
\* order, under the session id the response carries.
C12_NewSession ==
    [][\A r \in Req :
          /\ (chat[r].pc = "idle" /\ chat'[r].pc # "idle" /\ ~chat'[r].supplied) =>
                LET sid == chat'[r].session_id
                IN /\ sid \notin DOMAIN sessions
                   /\ sid > uuids
                   /\ DOMAIN sessions' = (DOMAIN sessions) \cup {sid}
                   /\ \A s \in DOMAIN sessions : sessions'[s] = sessions[s]
                   /\ sessions'[sid].user_id = chat'[r].user
          /\ (~chat[r].supplied /\ chat[r].pc = "ask" /\ chat'[r].status = 200) =>
                LET sid == chat'[r].session_id
                IN /\ sid = chat[r].session_id
                   /\ sid \in DOMAIN sessions'
                   /\ sessions'[sid].user_id = chat[r].user
                   /\ sessions'[sid].messages =
                         <<Message(chat[r].question, "user"),
                           Message(AnswerTo(chat[r].question), "assistant")>>]_vars

\* C12's case: a request without a session id has been answered with success,
\* its session being the second one created.
C12_Witness ==
    \E r \in Req :
        /\ chat[r].pc = "done" /\ chat[r].status = 200 /\ ~chat[r].supplied
        /\ chat[r].session_id = NumSid
        /\ Len(sessions[chat[r].session_id].messages) = 2

(***************************************************************************)
(* The claims on what an ingestion request ingests and reports.            *)
(***************************************************************************)

\* the elements of a sequence
Range(seq) == {seq[i] : i \in DOMAIN seq}

\* C13: the processed_urls of a successful ingest_urls response are the URLs
\* whose text was extracted, and no others.
C13_ProcessedUrlsAreProcessed ==
    (ing.pc = "done" /\ ing.kind = "urls" /\ ing.status = 200)
        => Range(ing.processed_urls) = ing.extracted

\* C14: an HTTPException raised in a handler for a client error is the
\* response: the 403 of chat for a session of another user is answered 403,
\* the 400 of ingest_file for a file without text is answered 400, and the
\* 404 and 403 of delete_session are answered 404 and 403.
C14_ClientErrorKeepsStatus ==
    /\ \A r \in Req :
          (chat[r].pc = "done" /\ chat[r].raised = HTTPException(403))
              => chat[r].status = 403
    /\ (ing.pc = "done" /\ ing.raised = HTTPException(400)) => ing.status = 400
    /\ (deletion.pc = "done" /\ deletion.raised # NoExc)
          => deletion.status = deletion.raised.status

\* the chunk entries of the index whose parent is the document of id rid
ChunksOf(rid) == {id \in DOMAIN chunks : chunks[id].resource_id = rid}

\* C15: a document that has been ingested has as many chunk entries in the
\* index as the splitter made chunks of it.
C15_OneEntryPerChunk ==
    \A d \in ing.done :
        Cardinality(ChunksOf(ResourceId(d.path, d.content))) = Len(SplitText(d.content))

\* C16: the files an ingestion request ingests are files written for that
\* request: none of them was left in the data directory by an earlier one.
C16_OnlyOwnDocuments ==
    ing.files \subseteq ing.own

(***************************************************************************)
(* The claim on register_user.                                             *)
(***************************************************************************)

\* C17: no two stored users have the same username, and no two have the same
\* user_id.
C17_UsersDistinct ==
    \A i, j \in DOMAIN users :
        i # j => /\ users[i].username # users[j].username
                 /\ users[i].user_id # users[j].user_id

(***************************************************************************)
(* The claim on the files of process_urls.                                 *)
(***************************************************************************)

\* C18: while the documents of an ingest_urls request are ingested, every
\* URL of the request whose text was extracted has its file in the data
\* directory, holding the text of that URL, and the URLs have as many files
\* as they are.
C18_EachUrlItsOwnFile ==
    (ing.kind = "urls" /\ ing.pc \notin {"idle", "done"}) =>
        /\ \A url \in ing.extracted :
              /\ UrlFile(url) \in DOMAIN dataDir
              /\ dataDir[UrlFile(url)] = PageText(url)
        /\ Cardinality(ing.own) = Cardinality(ing.extracted)

====
